---- MODULE Spec2Model ----
(***************************************************************************)
(* Edit-session discipline of the right-click action strategies.           *)
(*                                                                         *)
(* One vector layer with a provider (persisted features) and an edit       *)
(* buffer (pending edits).  Every handler of the toolkit (an action's      *)
(* execute, a map tool's canvasPressEvent / keyPressEvent) is one atomic   *)
(* step: the UI thread runs it to completion, modal dialogs included.      *)
(* The trace of the last handler (wrapper calls, layer calls and           *)
(* notifications, in program order) is kept in `last`.                     *)
(***************************************************************************)
EXTENDS Integers, Sequences, FiniteSets, TLC

VARIABLES layer, last, tools, current_settings, invocations,
          registry, report, menu, detected, call

vars ==
  <<layer, last, tools, current_settings, invocations, registry, report, menu,
    detected, call>>

\* the layer and the handlers; the registry and the menu; the last run of
\* an action that works on the project's layers, files or view
handler_vars == <<layer, last, tools, current_settings, invocations>>
load_vars == <<registry, report, menu, detected>>
call_vars == <<call>>

(* ------------------------------ bounds --------------------------------- *)
MaxFeatures == 3
NumGeoms == 2
MaxTools == 2
MaxInvocations == 1
MaxSequence == 2
MaxRegistered == 2
MaxLayers == 3
MaxDistance == 2
MaxValues == 2
MaxCandidates == 2
PercentStep == 5

(* ------------------------------ the layer ------------------------------ *)
\* the layer can hold MaxFeatures features and starts one short of that
Fids == 1..MaxFeatures
OriginalFids == 1..(MaxFeatures - 1)
Geoms == 0..(NumGeoms - 1)

\* a feature table is a set of <<id, geometry>> pairs, one pair per id
Ids(M) == {p[1] : p \in M}
GeomOf(M, f) == (CHOOSE p \in M : p[1] = f)[2]
Without(M, f) == {p \in M : p[1] # f}

\* what layer.getFeatures() shows: the edit buffer laid over the provider
Visible(L) == L.buffer \cup {p \in L.provider : p[1] \notin Ids(L.buffer)}

FeatureIds(L) == Ids(Visible(L))

HasPending(L) == L.buffer # {}

FreeIds(L) == Fids \ FeatureIds(L)

MinOf(S) == CHOOSE x \in S : \A y \in S : x <= y

\* layer.updateFeature(feature): refused on a layer that is not editable or
\* by the provider; otherwise the new geometry goes to the edit buffer
updateFeature(L, fid, geom, providerOk) ==
  IF L.editable /\ providerOk /\ fid \in FeatureIds(L)
  THEN [ok |-> TRUE,
        layer |-> [L EXCEPT !.buffer = Without(@, fid) \cup {<<fid, geom>>}]]
  ELSE [ok |-> FALSE, layer |-> L]

\* layer.addFeature(new_feature) with id -1: the layer assigns the next id
addFeature(L, geom, providerOk) ==
  IF L.editable /\ providerOk /\ FreeIds(L) # {}
  THEN [ok |-> TRUE,
        layer |-> [L EXCEPT !.buffer = @ \cup {<<MinOf(FreeIds(L)), geom>>}]]
  ELSE [ok |-> FALSE, layer |-> L]

(* ---------------------- the edit-transaction wrapper ------------------- *)
Log(S, e) == [S EXCEPT !.trace = Append(@, e)]

\* enter: (was_in_edit_mode, edit_mode_entered), or (None, None) and an error
handle_edit_mode(S, startOk) ==
  IF S.layer.editable
  THEN [S |-> Log(S, "enter_ok"), failed |-> FALSE, was |-> TRUE, entered |-> FALSE]
  ELSE IF startOk
  THEN [S |-> Log([S EXCEPT !.layer.editable = TRUE], "enter_ok"),
        failed |-> FALSE, was |-> FALSE, entered |-> TRUE]
  ELSE [S |-> Log(Log(S, "enter_failed"), "error:edit_mode"),
        failed |-> TRUE, was |-> FALSE, entered |-> FALSE]

\* commit: persist the pending edits; a failure is reported, nothing is
\* rolled back
commit_changes(S, commitOk) ==
  IF commitOk
  THEN [ok |-> TRUE,
        S |-> Log([S EXCEPT !.layer.provider = Visible(S.layer),
                            !.layer.buffer = {}], "commit_ok")]
  ELSE [ok |-> FALSE, S |-> Log(Log(S, "commit_failed"), "error:commit")]

\* rollback: discard the pending edits, unconditionally
rollback_changes(S) ==
  Log([S EXCEPT !.layer.buffer = {}], "rollback")

\* faulty variant: exit flips the editable state of a session it started
exit_edit_mode_toggle(S, edit_mode_entered) ==
  IF edit_mode_entered
  THEN Log([S EXCEPT !.layer.editable = ~@], "exit")
  ELSE Log(S, "exit")

\* exit: end the edit session if, and only if, the wrapper started it
exit_edit_mode(S, edit_mode_entered) ==
  IF edit_mode_entered
  THEN Log([S EXCEPT !.layer.editable = FALSE], "exit")
  ELSE Log(S, "exit")

(* ------------------------- inputs of a handler ------------------------- *)
\* The settings an action reads with get_setting, at their schema defaults;
\* `valid` is false when a stored value cannot be converted (float("abc")).
DefaultSettings ==
  [valid |-> TRUE, handle_edit_mode |-> TRUE, auto_commit |-> TRUE,
   rollback_on_error |-> TRUE, confirm |-> FALSE, skip_invalid |-> TRUE,
   show_errors |-> TRUE]

\* every value of the three edit-session settings
EditSettings ==
  {[DefaultSettings EXCEPT !.handle_edit_mode = h, !.auto_commit = a,
                           !.rollback_on_error = r] :
     h \in BOOLEAN, a \in BOOLEAN, r \in BOOLEAN}

InvalidSettings == [DefaultSettings EXCEPT !.valid = FALSE]

\* One handler run reads: the settings, the Click Context (detected
\* features, closest first, and the canvas), the user's answers (which
\* dialog is cancelled, the copy choice, the amount of the transformation)
\* and what the provider and the library do (startEditing succeeds or not,
\* and the first fault met: a raise while computing, a rejected update, a
\* failed commit, a raise while reporting; `at` is the feature it hits).
Input(set, features, canvas, cancel, copy, amount, startOk, fault, at) ==
  [set |-> set, features |-> features, canvas |-> canvas, cancel |-> cancel,
   create_copy |-> copy, amount |-> amount, startOk |-> startOk,
   fault |-> fault, at |-> at]

Amounts == 1..(NumGeoms - 1)

Clicked == {<<f>> : f \in Fids}

\* rotate / scale / move: the strategy's pure geometry function
Transform(geom, amount) == (geom + amount) % NumGeoms

(* ------------- the try / except / finally frame of a strategy ---------- *)
NoSession == [failed |-> FALSE, was |-> FALSE, entered |-> FALSE]

Raised(S) == [S |-> S, raised |-> TRUE]
Returned(S) == [S |-> S, raised |-> FALSE]

\* faulty variant: the result of enter is not looked at
enter_step_unchecked(S, set, startOk) ==
  IF set.handle_edit_mode
  THEN [handle_edit_mode(S, startOk) EXCEPT !.failed = FALSE]
  ELSE [S |-> S] @@ NoSession

\* "# Handle edit mode": enter through the wrapper when the setting is on
enter_step(S, set, startOk) ==
  IF set.handle_edit_mode
  THEN handle_edit_mode(S, startOk)
  ELSE [S |-> S] @@ NoSession

\* "# Commit changes if enabled"
commit_step(S, set, fault) ==
  IF set.auto_commit /\ set.handle_edit_mode
  THEN commit_changes(S, fault # "commit")
  ELSE [ok |-> TRUE, S |-> S]

\* "# Show success message if enabled" (a raise here reaches the except)
success_step(S, fault) ==
  IF fault = "message" THEN Raised(S) ELSE Returned(Log(S, "info:success"))

\* commit, then report: the tail of every try body
commit_and_report(S, set, fault) ==
  LET c == commit_step(S, set, fault)
  IN  IF ~c.ok THEN Returned(c.S) ELSE success_step(c.S, fault)

\* except Exception: report, roll back if configured
except_handler(S, set) ==
  LET S1 == Log(S, "error:exception")
  IN  IF set.rollback_on_error /\ set.handle_edit_mode
      THEN rollback_changes(S1)
      ELSE S1

\* faulty variant: the finally block ends the session whoever opened it
finally_exit_always(S, set, edit_mode_entered) ==
  IF set.handle_edit_mode
  THEN exit_edit_mode(S, TRUE)
  ELSE S

\* finally: "Exit edit mode if we entered it"
finally_exit(S, set, edit_mode_entered) ==
  IF set.handle_edit_mode
  THEN exit_edit_mode(S, edit_mode_entered)
  ELSE S

\* faulty variant: the exit sits at the end of the except handler, so an
\* early return from the try body misses it
try_frame_exit_in_except(r, set, edit_mode_entered) ==
  IF r.raised
  THEN finally_exit(except_handler(r.S, set), set, edit_mode_entered)
  ELSE r.S

\* a try body's result r = [S, raised] run through except and finally
try_frame(r, set, edit_mode_entered) ==
  finally_exit(IF r.raised THEN except_handler(r.S, set) ELSE r.S,
               set, edit_mode_entered)

Start(L) == [layer |-> L, trace |-> <<>>]

(* ------------------------------ rotate_line ---------------------------- *)
rotate_line_try(S, fid, geometry, in) ==
  IF in.fault = "compute"
  THEN Raised(S)
  ELSE
    LET u == updateFeature(S.layer, fid, Transform(geometry, in.amount),
                           in.fault # "update")
    IN  IF ~u.ok
        THEN Returned(Log(Log(S, "update_rejected"), "error:update"))
        ELSE commit_and_report(Log([S EXCEPT !.layer = u.layer], "update_ok"),
                               in.set, in.fault)

rotate_line_execute(L, in) ==
  IF ~in.set.valid THEN Log(Start(L), "error:invalid_settings")
  ELSE IF in.features = <<>> THEN Log(Start(L), "error:no_features")
  ELSE IF in.cancel = "dialog" THEN Log(Start(L), "cancel")
  ELSE IF in.set.confirm /\ in.cancel = "confirm" THEN Log(Start(L), "cancel")
  ELSE
    LET fid == Head(in.features)
        e == enter_step(Start(L), in.set, in.startOk)
    IN  IF e.failed
        THEN e.S
        ELSE try_frame(rotate_line_try(e.S, fid, GeomOf(Visible(L), fid), in),
                       in.set, e.entered)

RotateLineFaults == {"none", "compute", "update", "commit", "message"}

RotateLineInputs ==
  {Input(InvalidSettings, fs, TRUE, "none", FALSE, 1, TRUE, "none", 1) :
     fs \in {<<>>} \cup Clicked}
  \cup {Input(s, <<>>, TRUE, "none", FALSE, 1, TRUE, "none", 1) :
          s \in EditSettings}
  \cup {Input(s, fs, TRUE, "dialog", FALSE, 1, TRUE, "none", 1) :
          s \in EditSettings, fs \in Clicked}
  \cup {Input([s EXCEPT !.confirm = TRUE], fs, TRUE, "confirm", FALSE, 1,
              TRUE, "none", 1) :
          s \in EditSettings, fs \in Clicked}
  \cup {Input(s, fs, TRUE, "none", FALSE, a, TRUE, f, 1) :
          s \in EditSettings, fs \in Clicked, a \in Amounts,
          f \in RotateLineFaults}
  \cup {Input(s, fs, TRUE, "none", FALSE, a, FALSE, "none", 1) :
          s \in EditSettings, fs \in Clicked, a \in Amounts}

(* ---------------------------- scale_line_layer ------------------------ *)
\* layer.getFeatures(): the features in id order
FeatureSeq(L) ==
  LET ids == FeatureIds(L)
  IN  CHOOSE q \in [1..Cardinality(ids) -> ids] :
        \A i, j \in 1..Cardinality(ids) : i < j => q[i] < q[j]

\* a feature that is invalid, cannot be scaled or cannot be updated: skip
\* it, or report, roll back if configured, and return
scale_line_layer_stop(S, set, what) ==
  LET S1 == Log(Log(S, what), "error:update")
  IN  [S |-> IF set.rollback_on_error /\ set.handle_edit_mode
             THEN rollback_changes(S1)
             ELSE S1,
       stop |-> "returned"]

RECURSIVE scale_line_layer_loop(_, _, _)
scale_line_layer_loop(S, todo, in) ==
  IF todo = <<>>
  THEN [S |-> S, stop |-> "no"]
  ELSE
    LET fid == Head(todo)
        hit == in.at = fid
        u == updateFeature(S.layer, fid,
                           Transform(GeomOf(Visible(S.layer), fid), in.amount),
                           ~(hit /\ in.fault = "update"))
    IN  IF hit /\ in.fault = "compute"
        THEN [S |-> S, stop |-> "raised"]
        ELSE IF hit /\ in.fault = "scale"
        THEN IF in.set.skip_invalid
             THEN scale_line_layer_loop(Log(S, "skipped"), Tail(todo), in)
             ELSE scale_line_layer_stop(S, in.set, "not_scaled")
        ELSE IF ~u.ok
        THEN IF in.set.skip_invalid
             THEN scale_line_layer_loop(Log(S, "skipped"), Tail(todo), in)
             ELSE scale_line_layer_stop(S, in.set, "update_rejected")
        ELSE scale_line_layer_loop(Log([S EXCEPT !.layer = u.layer], "update_ok"),
                                   Tail(todo), in)

scale_line_layer_try(S, in) ==
  LET r == scale_line_layer_loop(S, FeatureSeq(S.layer), in)
  IN  IF r.stop = "raised" THEN Raised(r.S)
      ELSE IF r.stop = "returned" THEN Returned(r.S)
      ELSE commit_and_report(r.S, in.set, in.fault)

scale_line_layer_execute(L, in) ==
  IF ~in.set.valid THEN Log(Start(L), "error:invalid_settings")
  ELSE IF in.features = <<>> THEN Log(Start(L), "error:no_features")
  ELSE IF in.cancel = "dialog" THEN Log(Start(L), "cancel")
  ELSE IF in.set.confirm /\ in.cancel = "confirm" THEN Log(Start(L), "cancel")
  ELSE
    LET e == enter_step(Start(L), in.set, in.startOk)
    IN  IF e.failed
        THEN e.S
        ELSE try_frame(scale_line_layer_try(e.S, in), in.set, e.entered)

ScaleSettings ==
  {[s EXCEPT !.skip_invalid = k] : s \in EditSettings, k \in BOOLEAN}

\* the clicked feature only names the layer
LayerClicked == {<<1>>}

ScaleLineLayerInputs ==
  {Input(InvalidSettings, fs, TRUE, "none", FALSE, 1, TRUE, "none", 1) :
     fs \in {<<>>} \cup LayerClicked}
  \cup {Input(s, <<>>, TRUE, "none", FALSE, 1, TRUE, "none", 1) :
          s \in ScaleSettings}
  \cup {Input(s, fs, TRUE, "dialog", FALSE, 1, TRUE, "none", 1) :
          s \in EditSettings, fs \in LayerClicked}
  \cup {Input([s EXCEPT !.confirm = TRUE], fs, TRUE, "confirm", FALSE, 1,
              TRUE, "none", 1) :
          s \in EditSettings, fs \in LayerClicked}
  \cup {Input(s, fs, TRUE, "none", FALSE, a, TRUE, f, 1) :
          s \in ScaleSettings, fs \in LayerClicked, a \in Amounts,
          f \in {"none", "commit", "message"}}
  \cup {Input(s, fs, TRUE, "none", FALSE, a, TRUE, f, at) :
          s \in ScaleSettings, fs \in LayerClicked, a \in Amounts,
          f \in {"compute", "scale", "update"}, at \in Fids}
  \cup {Input(s, fs, TRUE, "none", FALSE, a, FALSE, "none", 1) :
          s \in EditSettings, fs \in LayerClicked, a \in Amounts}

(* --------------------------- move_point_with_click --------------------- *)
\* the dictionary execute stores on the action for the map tool
StoredSettings(in) ==
  [stored |-> TRUE, handle_edit_mode |-> in.set.handle_edit_mode,
   auto_commit |-> in.set.auto_commit,
   rollback_on_error |-> in.set.rollback_on_error,
   create_copy |-> in.create_copy]

\* execute: validate, ask, store _current_settings, install the map tool;
\* `chosen` remembers what this invocation chose, for the properties
move_point_execute(L, in) ==
  LET quit(msg) == [S |-> Log(Start(L), msg), tool |-> <<>>, stored |-> FALSE]
  IN  IF in.features = <<>> THEN quit("error:no_features")
      ELSE IF ~in.canvas THEN quit("error:no_canvas")
      ELSE IF in.cancel # "none" THEN quit("cancel")
      ELSE [S |-> Log(Start(L), "set_map_tool"),
            tool |-> <<[feature |-> Head(in.features),
                        chosen |-> StoredSettings(in)]>>,
            stored |-> TRUE]

move_feature_try(S, fid, new_geometry, settings, in) ==
  IF in.fault = "compute"
  THEN Raised(S)
  ELSE IF settings.create_copy
  THEN
    LET c == addFeature(S.layer, new_geometry, in.fault # "update")
    IN  IF ~c.ok
        THEN Returned(Log(Log(S, "add_rejected"), "error:update"))
        ELSE commit_and_report(Log([S EXCEPT !.layer = c.layer], "add_ok"),
                               settings, in.fault)
  ELSE
    LET u == updateFeature(S.layer, fid, new_geometry, in.fault # "update")
    IN  IF ~u.ok
        THEN Returned(Log(Log(S, "update_rejected"), "error:update"))
        ELSE commit_and_report(Log([S EXCEPT !.layer = u.layer], "update_ok"),
                               settings, in.fault)

\* _move_feature_to_geometry reads the settings stored on the action
move_feature_to_geometry(L, fid, new_geometry, settings, in) ==
  LET e == enter_step(Start(L), settings, in.startOk)
  IN  IF e.failed
      THEN e.S
      ELSE try_frame(move_feature_try(e.S, fid, new_geometry, settings, in),
                     settings, e.entered)

\* faulty variant: the tool opens the edit session when it is armed and
\* the cancel path forgets it
cancel_move_in_session(L, show_cancellation) ==
  LET e == handle_edit_mode(Start(L), TRUE)
  IN  IF show_cancellation THEN Log(e.S, "info:cancelled") ELSE e.S

\* _cancel_move: tell the user if configured; nothing else
cancel_move(L, show_cancellation) ==
  IF show_cancellation THEN Log(Start(L), "info:cancelled") ELSE Start(L)

MovePointExecuteInputs ==
  {Input(s, <<>>, c, "none", FALSE, 1, TRUE, "none", 1) :
     s \in EditSettings, c \in BOOLEAN}
  \cup {Input(s, fs, FALSE, "none", FALSE, 1, TRUE, "none", 1) :
          s \in EditSettings, fs \in Clicked}
  \cup {Input(s, fs, TRUE, "dialog", FALSE, 1, TRUE, "none", 1) :
          s \in EditSettings, fs \in Clicked}
  \cup {Input(s, fs, TRUE, "none", cp, 1, TRUE, "none", 1) :
          s \in EditSettings, fs \in Clicked, cp \in BOOLEAN}

\* a left click: where (the new geometry, as `amount`) and what then fails
CanvasPressInputs ==
  {Input(DefaultSettings, <<>>, TRUE, "none", FALSE, g, TRUE, f, 1) :
     g \in Geoms, f \in RotateLineFaults}
  \cup {Input(DefaultSettings, <<>>, TRUE, "none", FALSE, g, FALSE, "none", 1) :
          g \in Geoms}

(* ------------------------------ zoom_to_polygon ------------------------ *)
\* faulty variant: "Silently fail" whatever show_error_messages says
zoom_to_polygon_execute_silent(L, in) ==
  IF ~in.set.valid THEN Log(Start(L), "error:invalid_settings")
  ELSE IF in.features = <<>> \/ ~in.canvas THEN Start(L)
  ELSE Log(Start(L), "zoom")

zoom_to_polygon_execute(L, in) ==
  IF ~in.set.valid THEN Log(Start(L), "error:invalid_settings")
  ELSE IF in.features = <<>>
  THEN IF in.set.show_errors THEN Log(Start(L), "error:no_features")
       ELSE Start(L)
  ELSE IF ~in.canvas
  THEN IF in.set.show_errors THEN Log(Start(L), "error:no_canvas")
       ELSE Start(L)
  ELSE Log(Start(L), "zoom")

ZoomInputs ==
  {Input([DefaultSettings EXCEPT !.valid = v, !.show_errors = e], fs, c,
         "none", FALSE, 1, TRUE, "none", 1) :
     v \in BOOLEAN, e \in BOOLEAN, fs \in {<<>>} \cup Clicked, c \in BOOLEAN}

(* ----------------------------- zoom_to_line_layer --------------------- *)
\* as zoom_to_polygon, but the except of the settings block reads
\* show_errors, which is assigned last in the try: whenever a conversion
\* fails the name is unbound and the handler itself raises
zoom_to_line_layer_execute(L, in) ==
  IF ~in.set.valid THEN Log(Start(L), "unhandled_exception")
  ELSE IF in.features = <<>>
  THEN IF in.set.show_errors THEN Log(Start(L), "error:no_features")
       ELSE Start(L)
  ELSE IF ~in.canvas
  THEN IF in.set.show_errors THEN Log(Start(L), "error:no_canvas")
       ELSE Start(L)
  ELSE Log(Start(L), "zoom")

(* --------------------------- take_canvas_screenshot ------------------- *)
\* no canvas: "Silently fail"; otherwise grab and save the canvas
take_canvas_screenshot_execute(L, in) ==
  IF ~in.set.valid THEN Log(Start(L), "error:invalid_settings")
  ELSE IF ~in.canvas THEN Start(L)
  ELSE Log(Start(L), "screenshot")

\* a universal action: the click need not be on a feature
ScreenshotInputs ==
  {Input([DefaultSettings EXCEPT !.valid = v], fs, c, "none", FALSE, 1, TRUE,
         "none", 1) :
     v \in BOOLEAN, fs \in {<<>>} \cup Clicked, c \in BOOLEAN}

(* ----------------------- capability descriptors ------------------------ *)
\* what an action's __init__ declares: action_id, set_action_scope,
\* set_supported_click_types, set_supported_geometry_types, enabled
Descriptor(action_id, scope, click_types, geometry_types, enabled) ==
  [action_id |-> action_id, scope |-> scope, click_types |-> click_types,
   geometry_types |-> geometry_types, enabled |-> enabled]

descriptor_measure_distance ==
  Descriptor("measure_distance", "universal", {"universal"},
             {"universal"}, TRUE)

descriptor_merge_polygon_layer ==
  Descriptor("merge_polygon_layer", "layer", {"polygon", "multipolygon"},
             {"polygon", "multipolygon"}, TRUE)

descriptor_move_line_with_click ==
  Descriptor("move_line_with_click", "feature", {"line", "multiline"},
             {"line", "multiline"}, TRUE)

descriptor_move_point_by_distance_direction ==
  Descriptor("move_point_by_distance_direction", "feature", {"point", "multipoint"},
             {"point", "multipoint"}, TRUE)

descriptor_move_point_to_coordinates ==
  Descriptor("move_point_to_coordinates", "feature", {"point", "multipoint"},
             {"point", "multipoint"}, TRUE)

descriptor_move_point_with_click ==
  Descriptor("move_point_with_click", "feature", {"point", "multipoint"},
             {"point", "multipoint"}, TRUE)

descriptor_move_polygon_by_distance_direction ==
  Descriptor("move_polygon_by_distance_direction", "feature", {"polygon", "multipolygon"},
             {"polygon", "multipolygon"}, TRUE)

descriptor_open_coordinates_in_map ==
  Descriptor("open_coordinates_in_map", "universal", {"universal"},
             {"point", "multipoint", "line", "multiline", "polygon", "multipolygon", "canvas"}, TRUE)

descriptor_rotate_line ==
  Descriptor("rotate_line", "feature", {"line", "multiline"},
             {"line", "multiline"}, TRUE)

descriptor_rotate_polygon ==
  Descriptor("rotate_polygon", "feature", {"polygon", "multipolygon"},
             {"polygon", "multipolygon"}, TRUE)

descriptor_scale_line ==
  Descriptor("scale_line", "feature", {"line", "multiline"},
             {"line", "multiline"}, TRUE)

descriptor_scale_line_layer ==
  Descriptor("scale_line_layer", "layer", {"line", "multiline"},
             {"line", "multiline"}, TRUE)

descriptor_see_info_polygon ==
  Descriptor("see_info_polygon", "feature", {"polygon", "multipolygon"},
             {"polygon", "multipolygon"}, TRUE)

descriptor_show_line_layer_segment_lengths ==
  Descriptor("show_line_layer_segment_lengths", "layer", {"line", "multiline"},
             {"line", "multiline"}, TRUE)

descriptor_show_line_segment_lengths ==
  Descriptor("show_line_segment_lengths", "feature", {"line", "multiline"},
             {"line", "multiline"}, TRUE)

descriptor_show_polygon_area_layer ==
  Descriptor("show_polygon_area_layer", "feature", {"polygon", "multipolygon"},
             {"polygon", "multipolygon"}, TRUE)

descriptor_show_polygon_layer_angles ==
  Descriptor("show_polygon_layer_angles", "layer", {"polygon", "multipolygon"},
             {"polygon", "multipolygon"}, TRUE)

descriptor_show_polygon_layer_areas ==
  Descriptor("show_polygon_layer_areas", "layer", {"polygon", "multipolygon"},
             {"polygon", "multipolygon"}, TRUE)

descriptor_show_polygon_layer_side_lengths ==
  Descriptor("show_polygon_layer_side_lengths", "layer", {"polygon", "multipolygon"},
             {"polygon", "multipolygon"}, TRUE)

descriptor_smooth_polygon ==
  Descriptor("smooth_polygon", "feature", {"polygon", "multipolygon"},
             {"polygon", "multipolygon"}, TRUE)

descriptor_snap_point_to_line ==
  Descriptor("snap_point_to_line", "feature", {"point", "multipoint"},
             {"point", "multipoint"}, TRUE)

descriptor_snap_point_to_polygon ==
  Descriptor("snap_point_to_polygon", "feature", {"point", "multipoint"},
             {"point", "multipoint"}, TRUE)

descriptor_split_point_layer_by_attribute ==
  Descriptor("split_point_layer_by_attribute", "layer", {"point", "multipoint"},
             {"point", "multipoint"}, TRUE)

descriptor_take_canvas_screenshot ==
  Descriptor("take_canvas_screenshot", "universal", {"universal"},
             {"universal"}, TRUE)

descriptor_toggle_all_layers ==
  Descriptor("toggle_all_layers", "universal", {"universal"},
             {"universal"}, TRUE)

descriptor_toggle_point_labels ==
  Descriptor("toggle_point_labels", "layer", {"point", "multipoint"},
             {"point", "multipoint"}, TRUE)

descriptor_zoom_to_line ==
  Descriptor("zoom_to_line", "feature", {"line", "multiline"},
             {"line", "multiline"}, TRUE)

descriptor_zoom_to_line_layer ==
  Descriptor("zoom_to_line_layer", "layer", {"line", "multiline"},
             {"line", "multiline"}, TRUE)

descriptor_zoom_to_point ==
  Descriptor("zoom_to_point", "feature", {"point", "multipoint"},
             {"point", "multipoint"}, TRUE)

descriptor_zoom_to_polygon ==
  Descriptor("zoom_to_polygon", "feature", {"polygon", "multipolygon"},
             {"polygon", "multipolygon"}, TRUE)

descriptor_zoom_to_visible_data_layers ==
  Descriptor("zoom_to_visible_data_layers", "universal", {"universal"},
             {"universal"}, TRUE)

\* the actions of the toolkit, as their modules declare them, in the order
\* of the modules of src/actions
LoadOrder ==
  <<descriptor_measure_distance,
    descriptor_merge_polygon_layer,
    descriptor_move_line_with_click,
    descriptor_move_point_by_distance_direction,
    descriptor_move_point_to_coordinates,
    descriptor_move_point_with_click,
    descriptor_move_polygon_by_distance_direction,
    descriptor_open_coordinates_in_map,
    descriptor_rotate_line,
    descriptor_rotate_polygon,
    descriptor_scale_line,
    descriptor_scale_line_layer,
    descriptor_see_info_polygon,
    descriptor_show_line_layer_segment_lengths,
    descriptor_show_line_segment_lengths,
    descriptor_show_polygon_area_layer,
    descriptor_show_polygon_layer_angles,
    descriptor_show_polygon_layer_areas,
    descriptor_show_polygon_layer_side_lengths,
    descriptor_smooth_polygon,
    descriptor_snap_point_to_line,
    descriptor_snap_point_to_polygon,
    descriptor_split_point_layer_by_attribute,
    descriptor_take_canvas_screenshot,
    descriptor_toggle_all_layers,
    descriptor_toggle_point_labels,
    descriptor_zoom_to_line,
    descriptor_zoom_to_line_layer,
    descriptor_zoom_to_point,
    descriptor_zoom_to_polygon,
    descriptor_zoom_to_visible_data_layers>>

Declared == {LoadOrder[i] : i \in DOMAIN LoadOrder}

\* the user's configuration may have an action disabled
Configured == {[d EXCEPT !.enabled = e] : d \in Declared, e \in BOOLEAN}

LoadIndex(d) ==
  CHOOSE i \in DOMAIN LoadOrder : LoadOrder[i].action_id = d.action_id

(* ------------------------------ Action Registry ------------------------ *)
\* the closed vocabulary of geometry-category tags
Vocabulary ==
  {"point", "multipoint", "line", "multiline", "polygon", "multipolygon",
   "universal"}

Categories == Vocabulary \ {"universal"}

KnownTags(d) == (d.click_types \cup d.geometry_types) \subseteq Vocabulary

\* the invariant of a Capability Descriptor
ScopeMatchesTypes(d) ==
  IF d.scope = "universal"
  THEN d.click_types = {"universal"} /\ d.geometry_types = {"universal"}
  ELSE d.geometry_types \cap Categories # {}

RegisteredIds(reg) == {reg[i].action_id : i \in DOMAIN reg}

\* faulty variant: tags are not validated
register_any_tag(reg, d) ==
  IF d.action_id \in RegisteredIds(reg)
  THEN [registry |-> reg, error |-> "ConfigurationError:duplicate"]
  ELSE [registry |-> Append(reg, d), error |-> "none"]

\* faulty variant: a second registration replaces the first
register_overwrite(reg, d) ==
  IF d.action_id \in RegisteredIds(reg)
  THEN [registry |-> [i \in DOMAIN reg |->
                        IF reg[i].action_id = d.action_id THEN d ELSE reg[i]],
        error |-> "none"]
  ELSE IF ~KnownTags(d)
  THEN [registry |-> reg, error |-> "ConfigurationError:unknown_tag"]
  ELSE IF ~ScopeMatchesTypes(d)
  THEN [registry |-> reg, error |-> "ConfigurationError:capability"]
  ELSE [registry |-> Append(reg, d), error |-> "none"]

\* register(capability_descriptor): a duplicate id, an unknown tag or a
\* scope/type mismatch is a ConfigurationError and the action is left out
register(reg, d) ==
  IF d.action_id \in RegisteredIds(reg)
  THEN [registry |-> reg, error |-> "ConfigurationError:duplicate"]
  ELSE IF ~KnownTags(d)
  THEN [registry |-> reg, error |-> "ConfigurationError:unknown_tag"]
  ELSE IF ~ScopeMatchesTypes(d)
  THEN [registry |-> reg, error |-> "ConfigurationError:capability"]
  ELSE [registry |-> Append(reg, d), error |-> "none"]

\* the lookup rule of the registry
Matches(d, scopes, geometry_type) ==
  /\ d.enabled
  /\ (d.scope = "universal" \/ d.scope \in scopes)
  /\ (geometry_type \in d.geometry_types \/ "universal" \in d.geometry_types)

ActionIds(seq) == [i \in DOMAIN seq |-> seq[i].action_id]

\* faulty variant: the enabled flag is not looked at
find_applicable_all(reg, scopes, geometry_type) ==
  ActionIds(SelectSeq(reg, LAMBDA d :
    /\ (d.scope = "universal" \/ d.scope \in scopes)
    /\ (geometry_type \in d.geometry_types
          \/ "universal" \in d.geometry_types)))

\* find_applicable: the matching actions, in registration order
find_applicable(reg, scopes, geometry_type) ==
  ActionIds(SelectSeq(reg, LAMBDA d : Matches(d, scopes, geometry_type)))

(* -------------------------------- Dispatcher --------------------------- *)
\* what the click landed on: the closest candidate's geometry category, or
\* "universal" when the Feature Locator found nothing
Clicks == Vocabulary

\* a feature click implies feature scope, and layer scope on its layer;
\* an empty click forces universal scope
CurrentScopes(click) ==
  IF click = "universal" THEN {"universal"} ELSE {"feature", "layer"}

build_menu(reg, click) == find_applicable(reg, CurrentScopes(click), click)


(* ------------------------------ the machine ---------------------------- *)
\* the Click Context names features of the layer
InContext(in) ==
  IF in.features = <<>> THEN TRUE ELSE Head(in.features) \in FeatureIds(layer)

\* the settings of the last run that the properties below speak of
Kept(set) ==
  [valid |-> set.valid, show_errors |-> set.show_errors,
   handle_edit_mode |-> set.handle_edit_mode]

\* a handler ran: the layer it leaves and, in `last`, what it did, the
\* layer it found and what the user asked for
Ran(handler, in, S) ==
  /\ layer' = S.layer
  /\ last' = [handler |-> handler, before |-> layer, set |-> Kept(in.set),
              features |-> in.features, canvas |-> in.canvas,
              trace |-> S.trace, pending |-> Len(tools),
              create_copy |-> in.create_copy, amount |-> in.amount]

\* no handler is running and the record of the last one is gone
NoLayer == [editable |-> FALSE, provider |-> {}, buffer |-> {}]

Idle ==
  [handler |-> "none", before |-> NoLayer, set |-> Kept(DefaultSettings),
   features |-> <<>>, canvas |-> TRUE, trace |-> <<>>, pending |-> 0,
   create_copy |-> FALSE, amount |-> 1]

\* the user picks an action from the menu: one more invocation
Invoked(max) ==
  /\ last = Idle
  /\ invocations < max
  /\ invocations' = invocations + 1
  /\ UNCHANGED <<load_vars, call_vars>>

\* the handler has returned to the event loop; its Click Context and the
\* record of what it did are discarded
Return ==
  /\ last # Idle
  /\ last' = Idle
  /\ UNCHANGED <<layer, tools, current_settings, invocations>>
  /\ UNCHANGED <<load_vars, call_vars>>

RotateLine(inputs, max) ==
  /\ Invoked(max)
  /\ \E in \in inputs :
       /\ InContext(in)
       /\ Ran("rotate_line", in, rotate_line_execute(layer, in))
  /\ UNCHANGED <<tools, current_settings>>

ScaleLineLayer(inputs, max) ==
  /\ Invoked(max)
  /\ \E in \in inputs :
       /\ InContext(in)
       /\ Ran("scale_line_layer", in, scale_line_layer_execute(layer, in))
  /\ UNCHANGED <<tools, current_settings>>

ZoomToPolygon(inputs, max) ==
  /\ Invoked(max)
  /\ \E in \in inputs :
       /\ InContext(in)
       /\ Ran("zoom_to_polygon", in, zoom_to_polygon_execute(layer, in))
  /\ UNCHANGED <<tools, current_settings>>

ZoomToLineLayer(inputs, max) ==
  /\ Invoked(max)
  /\ \E in \in inputs :
       /\ InContext(in)
       /\ Ran("zoom_to_line_layer", in, zoom_to_line_layer_execute(layer, in))
  /\ UNCHANGED <<tools, current_settings>>

TakeCanvasScreenshot(inputs, max) ==
  /\ Invoked(max)
  /\ \E in \in inputs :
       /\ InContext(in)
       /\ Ran("take_canvas_screenshot", in,
              take_canvas_screenshot_execute(layer, in))
  /\ UNCHANGED <<tools, current_settings>>

\* MovePointAction.execute: returns with the map tool installed; the move
\* itself waits for the user's click
MovePointWithClick(inputs, max) ==
  /\ Invoked(max)
  /\ Len(tools) < MaxTools
  /\ \E in \in inputs :
       /\ InContext(in)
       /\ LET r == move_point_execute(layer, in)
          IN  /\ Ran("move_point_with_click", in, r.S)
              /\ tools' = tools \o r.tool
              /\ current_settings' =
                   IF r.stored THEN StoredSettings(in) ELSE current_settings

\* the settings a tool event ran with, in the shape `last` keeps
AsSettings(cs) ==
  [DefaultSettings EXCEPT !.handle_edit_mode = cs.handle_edit_mode,
                          !.auto_commit = cs.auto_commit,
                          !.rollback_on_error = cs.rollback_on_error]

ActiveTool == tools[Len(tools)]

\* MovePointMapTool.canvasPressEvent, left button: move, then give the
\* canvas back to the tool that was active before
CanvasPress(inputs) ==
  /\ last = Idle
  /\ tools # <<>>
  /\ current_settings.create_copy => FreeIds(layer) # {}
  /\ \E in \in inputs :
       LET fid == ActiveTool.feature
           tin == [in EXCEPT !.set = AsSettings(current_settings),
                             !.features = <<fid>>,
                             !.create_copy = ActiveTool.chosen.create_copy]
       IN  Ran("canvasPressEvent", tin,
               move_feature_to_geometry(layer, fid, in.amount,
                                        current_settings, in))
  /\ tools' = SubSeq(tools, 1, Len(tools) - 1)
  /\ UNCHANGED <<current_settings, invocations>>
  /\ UNCHANGED <<load_vars, call_vars>>

\* canvasPressEvent, right button, and keyPressEvent, Escape: _cancel_move
CancelMove ==
  /\ last = Idle
  /\ tools # <<>>
  /\ \E show \in BOOLEAN :
       Ran("cancel_move",
           [set |-> AsSettings(current_settings),
            features |-> <<ActiveTool.feature>>, canvas |-> TRUE,
            create_copy |-> ActiveTool.chosen.create_copy, amount |-> 1],
           cancel_move(layer, show))
  /\ tools' = SubSeq(tools, 1, Len(tools) - 1)
  /\ UNCHANGED <<current_settings, invocations>>
  /\ UNCHANGED <<load_vars, call_vars>>

(* ------------------------------ Feature Locator ----------------------- *)
\* the project's vector layers in draw order, 1 topmost; under the click
\* each layer shows at most one feature
Layers == 1..MaxLayers
Distances == 0..MaxDistance

\* what a layer has near the click: nothing, or a feature of the layer's
\* geometry type at `dist` map units (for a polygon: of its boundary),
\* which may contain the click point
Nothing ==
  [present |-> FALSE, geometry_type |-> "point", dist |-> 0, contains |-> FALSE]

Shapes ==
  {Nothing}
  \cup {[present |-> TRUE, geometry_type |-> g, dist |-> d, contains |-> FALSE] :
          g \in {"point", "line", "polygon"}, d \in Distances}
  \cup {[present |-> TRUE, geometry_type |-> "polygon", dist |-> d,
          contains |-> TRUE] : d \in Distances}

Scenes == [Layers -> Shapes]

\* containment is distance 0; otherwise the planar distance
DistanceTo(shape) ==
  IF shape.geometry_type = "polygon" /\ shape.contains THEN 0 ELSE shape.dist

IsCandidate(shape, tolerance) ==
  shape.present /\ (shape.contains \/ DistanceTo(shape) <= tolerance)

DetectedFeature(l, shape) ==
  [layer |-> l, geometry_type |-> shape.geometry_type,
   distance |-> DistanceTo(shape)]

\* ascending by distance, ties by draw order
Closer(a, b) ==
  a.distance < b.distance \/ (a.distance = b.distance /\ a.layer < b.layer)

RECURSIVE SortByDistance(_)
SortByDistance(S) ==
  IF S = {} THEN <<>>
  ELSE LET first == CHOOSE a \in S : \A b \in S \ {a} : Closer(a, b)
       IN  <<first>> \o SortByDistance(S \ {first})

\* faulty variant: the candidates in draw order
RECURSIVE SortByLayer(_)
SortByLayer(S) ==
  IF S = {} THEN <<>>
  ELSE LET first == CHOOSE a \in S : \A b \in S \ {a} : a.layer < b.layer
       IN  <<first>> \o SortByLayer(S \ {first})

locate_in_draw_order(scene, tolerance) ==
  SortByLayer({DetectedFeature(l, scene[l]) :
                 l \in {k \in Layers : IsCandidate(scene[k], tolerance)}})

\* locate(click_point, project_layers, tolerance)
locate(scene, tolerance) ==
  SortByDistance({DetectedFeature(l, scene[l]) :
                    l \in {k \in Layers : IsCandidate(scene[k], tolerance)}})

NoDetected ==
  [located |-> FALSE, scene |-> [l \in Layers |-> Nothing], tolerance |-> 0,
   features |-> <<>>]

\* the right click: the Feature Locator scans the layers
Locate ==
  /\ ~detected.located
  /\ \E scene \in Scenes, tolerance \in Distances :
       detected' = [located |-> TRUE, scene |-> scene, tolerance |-> tolerance,
                    features |-> locate(scene, tolerance)]
  /\ UNCHANGED <<registry, report, menu, handler_vars, call_vars>>

\* no registration has been reported, no menu has been built
NoReport ==
  [d |-> descriptor_measure_distance, before |-> <<>>, error |-> "idle"]

NoMenu == [built |-> FALSE, click |-> "universal", items |-> <<>>]

\* plugin load: the next discovered action is constructed and registered;
\* a module that is loaded again registers its action_id a second time
Register ==
  /\ ~menu.built
  /\ Len(registry) < MaxRegistered
  /\ \E d \in Configured :
       /\ \/ registry = <<>>
          \/ d.action_id \in RegisteredIds(registry)
          \/ \A i \in DOMAIN registry : LoadIndex(registry[i]) < LoadIndex(d)
       /\ LET r == register(registry, d)
          IN  /\ registry' = r.registry
              /\ report' = [d |-> d, before |-> registry, error |-> r.error]
  /\ UNCHANGED <<menu, detected, handler_vars, call_vars>>

\* the loader moves on
Loaded ==
  /\ report # NoReport
  /\ report' = NoReport
  /\ UNCHANGED <<registry, menu, detected, handler_vars, call_vars>>

\* a right click: the Dispatcher builds the menu for what was clicked
BuildMenu ==
  /\ report = NoReport
  /\ \E click \in Clicks :
       menu' = [built |-> TRUE, click |-> click,
                items |-> build_menu(registry, click)]
  /\ UNCHANGED <<registry, report, detected, handler_vars, call_vars>>

\* the features the project's layer starts with, all at geometry 0
StoredFeatures == {<<f, 0>> : f \in OriginalFids}

\* the user may have left the layer in an edit session of their own, with
\* edits of their own pending
UserEdits == {{}, {<<1, 1>>}}

\* no project-level action has run
NoCall == [op |-> "none"]

NoSettings ==
  [stored |-> FALSE, handle_edit_mode |-> TRUE, auto_commit |-> TRUE,
   rollback_on_error |-> TRUE, create_copy |-> FALSE]

Init ==
  /\ \E ed \in BOOLEAN, ue \in UserEdits :
       /\ (~ed => ue = {})
       /\ layer = [editable |-> ed, provider |-> StoredFeatures, buffer |-> ue]
  /\ last = Idle
  /\ tools = <<>>
  /\ current_settings = NoSettings
  /\ invocations = 0
  /\ registry = <<>>
  /\ report = NoReport
  /\ menu = NoMenu
  /\ detected = NoDetected
  /\ call = NoCall

(* One invocation, with every setting, answer and fault, from every state   *)
(* the user can have left the layer in; a click-to-move invocation ends    *)
(* with the tool's event.                                                  *)
ExecuteRotateLine == RotateLine(RotateLineInputs, MaxInvocations)
ExecuteScaleLineLayer == ScaleLineLayer(ScaleLineLayerInputs, MaxInvocations)
ExecuteZoomToPolygon == ZoomToPolygon(ZoomInputs, MaxInvocations)
ExecuteZoomToLineLayer == ZoomToLineLayer(ZoomInputs, MaxInvocations)
ExecuteTakeCanvasScreenshot ==
  TakeCanvasScreenshot(ScreenshotInputs, MaxInvocations)
ExecuteMovePointWithClick ==
  MovePointWithClick(MovePointExecuteInputs, MaxInvocations)
CanvasPressLeft == CanvasPress(CanvasPressInputs)

Next ==
  \/ ExecuteRotateLine
  \/ ExecuteScaleLineLayer
  \/ ExecuteZoomToPolygon
  \/ ExecuteZoomToLineLayer
  \/ ExecuteTakeCanvasScreenshot
  \/ ExecuteMovePointWithClick
  \/ CanvasPressLeft
  \/ CancelMove
  \/ Return

Spec == Init /\ [][Next]_vars

(* Several invocations in a row, each with the provider and the library    *)
(* doing as asked: what one invocation leaves behind for the next.         *)
Plain(inputs) ==
  {in \in inputs :
     /\ in.set.valid /\ in.set.handle_edit_mode /\ in.set.skip_invalid
     /\ in.set.rollback_on_error /\ in.startOk /\ in.fault = "none"}

NextRotateLine == RotateLine(Plain(RotateLineInputs), MaxSequence)
NextScaleLineLayer == ScaleLineLayer(Plain(ScaleLineLayerInputs), MaxSequence)
NextZoomToPolygon == ZoomToPolygon(Plain(ZoomInputs), MaxSequence)
NextMovePointWithClick ==
  MovePointWithClick(Plain(MovePointExecuteInputs), MaxSequence)
NextCanvasPressLeft == CanvasPress(Plain(CanvasPressInputs))

SequenceNext ==
  \/ NextRotateLine
  \/ NextScaleLineLayer
  \/ NextZoomToPolygon
  \/ NextMovePointWithClick
  \/ NextCanvasPressLeft
  \/ CancelMove
  \/ Return

SequenceSpec == Init /\ [][SequenceNext]_vars

(* Plugin load and menu building: the registry fills, then clicks are     *)
(* dispatched.                                                             *)
LoadInit == Init /\ ~layer.editable

RegistryNext ==
  \/ Register
  \/ Loaded
  \/ BuildMenu

RegistrySpec == LoadInit /\ [][RegistryNext]_vars

(* The Feature Locator on every scene under a click.                       *)
LocateNext == Locate

LocateSpec == LoadInit /\ [][LocateNext]_vars

(* ---------------------- split_point_layer_by_attribute ---------------- *)
\* the attribute values a feature can carry, as numbers in sort order
Values == 1..MaxValues

\* sorted(...): the members of a set of numbers in ascending order
Sorted(S) ==
  CHOOSE q \in [1..Cardinality(S) -> S] :
    \A i, j \in 1..Cardinality(S) : i < j => q[i] < q[j]

\* unique_values: the features grouped by the value of the chosen field
unique_values(attrs) == {attrs[f] : f \in DOMAIN attrs}

\* the loop over sorted(unique_values.items()): a layer is created for a
\* value, added to the project if configured and appended to
\* created_layers; an exception (layer invalid, write or load failed) is
\* reported and the loop continues with the next value
RECURSIVE split_create_layers(_, _, _)
split_create_layers(todo, created_layers, in) ==
  IF todo = <<>>
  THEN created_layers
  ELSE IF Head(todo) \in in.failing
  THEN split_create_layers(Tail(todo), created_layers, in)
  ELSE split_create_layers(
         Tail(todo),
         Append(created_layers,
                [value |-> Head(todo),
                 features |-> {f \in DOMAIN in.attrs : in.attrs[f] = Head(todo)},
                 in_project |-> in.add_to_project,
                 on_disk |-> in.create_permanent]),
         in)

\* "# Delete original layer and files if requested"
split_delete_original(in, created_layers) ==
  in.delete_original /\ created_layers # <<>>

\* execute, from the confirmation dialog on: what the project holds after
split_execute(in) ==
  IF in.cancel
  THEN [created_layers |-> <<>>, original_removed |-> FALSE]
  ELSE
    LET created_layers ==
          split_create_layers(Sorted(unique_values(in.attrs)), <<>>, in)
    IN  [created_layers |-> created_layers,
         original_removed |-> split_delete_original(in, created_layers)]

\* the layer's features with their attribute, the user's answers (cancel,
\* the delete checkbox), the storage settings, and the values for which
\* creating the output layer fails
SplitInputs ==
  [attrs : [OriginalFids -> Values], failing : SUBSET Values,
   delete_original : BOOLEAN, add_to_project : BOOLEAN,
   create_permanent : BOOLEAN, cancel : BOOLEAN]

SplitPointLayerByAttribute ==
  /\ call = NoCall
  /\ \E in \in SplitInputs :
       /\ in.cancel => (in.failing = {} /\ ~in.delete_original)
       /\ call' = [op |-> "split_point_layer_by_attribute", in |-> in,
                   out |-> split_execute(in)]
  /\ UNCHANGED <<handler_vars, load_vars>>

(* ----------------------------- merge_polygon_layer -------------------- *)
\* the features of a source layer, as <<layer, feature>> pairs
FeaturesOf(l) == {<<l, f>> : f \in OriginalFids}

RECURSIVE merge_add_features(_, _, _)
\* "# Add features from all layers": temp_layer.addFeature(new_feature) for
\* every feature of every layer; its result is not looked at
merge_add_features(todo, merged, in) ==
  IF todo = <<>>
  THEN merged
  ELSE merge_add_features(Tail(todo),
                          merged \cup (FeaturesOf(Head(todo)) \ in.refused),
                          in)

\* "# Check layer storage type setting": the merged layer is saved and
\* loaded again, or the memory layer is used as it is; `returned` when the
\* user cancels the file dialog or saving or loading fails
merge_store(in) ==
  IF in.storage = "permanent"
  THEN IF in.save = "ok"
       THEN [returned |-> FALSE, on_disk |-> TRUE]
       ELSE [returned |-> TRUE, on_disk |-> FALSE]
  ELSE [returned |-> FALSE, on_disk |-> FALSE]

\* execute, from the selection of the layers on: what the project holds
\* after
merge_execute(in) ==
  LET all_layers_to_merge == Sorted({1} \cup in.selected)
      merged == merge_add_features(all_layers_to_merge, {}, in)
      stored == merge_store(in)
  IN  IF stored.returned
      THEN [merged |-> merged, on_disk |-> FALSE, in_project |-> FALSE,
            sources_removed |-> FALSE]
      ELSE [merged |-> merged, on_disk |-> stored.on_disk,
            in_project |-> in.add_to_project,
            sources_removed |-> in.delete_original]

\* the layers the user selects to merge with the clicked one, the features
\* the memory layer refuses, the storage setting and how saving goes, the
\* delete checkbox and the add-to-project setting
MergeInputs ==
  {in \in [selected : SUBSET (Layers \ {1}), refused : SUBSET FeaturesOf(1),
           storage : {"permanent", "temporary"},
           save : {"ok", "cancel", "write_failed", "load_failed"},
           delete_original : BOOLEAN, add_to_project : BOOLEAN] :
     /\ in.selected # {}
     /\ in.storage = "temporary" => in.save = "ok"}

MergePolygonLayer ==
  /\ call = NoCall
  /\ \E in \in MergeInputs :
       call' = [op |-> "merge_polygon_layer", in |-> in,
                out |-> merge_execute(in)]
  /\ UNCHANGED <<handler_vars, load_vars>>

(* ----------------------------- _delete_layer_files -------------------- *)
\* range(3): os.remove is tried this many times
Attempts == 3

\* files are named by their extension, the base path being the layer's
LayerExtensions == {"shp", "gpkg", "gml"}
FileExtensions == LayerExtensions \cup {"dbf"}

\* "# Delete all shapefile-related files": the extensions list
ShapefileExtensions == {"shp", "dbf"}

\* "# Determine file format from source": by extension, shapefile if the
\* extension is none of the known ones
file_format_of(ext) ==
  IF ext = "gpkg" THEN "GPKG" ELSE "ESRI Shapefile"

\* the files that make up a layer stored in `main`
Associated(main, exists) ==
  IF main = "shp" THEN exists \cap ShapefileExtensions ELSE exists \cap {main}

RECURSIVE remove_with_retry(_, _, _)
\* for attempt in range(3): os.remove; `raises` is the number of attempts
\* that raise (PermissionError or OSError) before one succeeds.  In the
\* shapefile branch both are retried; in the single-file branches only
\* PermissionError is, any other exception ends the loop.
remove_with_retry(attempt, raises, retried) ==
  IF attempt >= Attempts THEN "failed"
  ELSE IF attempt >= raises THEN "deleted"
  ELSE IF retried THEN remove_with_retry(attempt + 1, raises, retried)
  ELSE "failed"

\* _delete_layer_files(file_path, file_format): (success, failed_files),
\* and the files that exist afterwards
delete_layer_files(in) ==
  IF ~in.has_path \/ in.main \notin in.exists
  THEN [success |-> TRUE, failed_files |-> {}, exists |-> in.exists]
  ELSE
    LET shapefile == in.file_format = "ESRI Shapefile"
        tried == IF shapefile
                 THEN in.exists \cap ShapefileExtensions
                 ELSE {in.main}
        retried(f) == shapefile \/ in.error = "PermissionError"
        deleted == {f \in tried :
                      remove_with_retry(0, in.raises[f], retried(f)) = "deleted"}
        failed_files == tried \ deleted
        exists == in.exists \ deleted
    IN  [success |-> failed_files = {}
                       /\ (Cardinality(deleted) > 0 \/ in.main \notin exists),
         failed_files |-> failed_files, exists |-> exists]

\* the layer's main file, the format the caller passes (its own in split,
\* that of the first layer in merge), the files on disk (the layer was
\* loaded from its main file, unless an earlier call already deleted it),
\* and how often and with what os.remove raises for each file
DeleteLayerFilesInputs ==
  {in \in [has_path : BOOLEAN, main : LayerExtensions,
           file_format : {file_format_of(e) : e \in LayerExtensions},
           exists : SUBSET FileExtensions,
           raises : [FileExtensions -> {0, 1, Attempts}],
           error : {"PermissionError", "OSError"}] :
     /\ in.exists = {} \/ in.main \in in.exists
     /\ in.exists \cap LayerExtensions \subseteq {in.main}
     /\ \A f \in FileExtensions \ in.exists : in.raises[f] = 0
     /\ (\A f \in in.exists : in.raises[f] = 0) => in.error = "OSError"
     /\ ~in.has_path => in.exists = {}}

DeleteLayerFiles ==
  /\ call = NoCall
  /\ \E in \in DeleteLayerFilesInputs :
       call' = [op |-> "_delete_layer_files", in |-> in,
                out |-> delete_layer_files(in)]
  /\ UNCHANGED <<handler_vars, load_vars>>

(* Actions that create and delete layers of the project, each run once on  *)
(* every input.                                                            *)
ProjectNext ==
  \/ SplitPointLayerByAttribute
  \/ MergePolygonLayer
  \/ DeleteLayerFiles

ProjectSpec == LoadInit /\ [][ProjectNext]_vars

(* --------------------- snap_point_to_line / _to_polygon ---------------- *)
\* float('inf'): farther than any distance of the model
Infinity == MaxDistance + 1

NoSnap == [found |-> FALSE, distance |-> Infinity, moved |-> 0, snap_type |-> "none"]

\* What the geometry library answers for a line feature and the point:
\* `distance` is geometry.distance(point), `sampled` the distance from the
\* point to the nearest of the 101 points sampled along the line, which is
\* a point of the line and so no nearer than the line itself.
LineFeatures ==
  {f \in [distance : Distances, sampled : Distances] : f.distance <= f.sampled}

RECURSIVE find_closest_line(_, _, _)
\* _find_closest_line: the loop over the features, `closest` being
\* (closest_feature, closest_point, closest_distance); `moved` is how far
\* closest_point is from the point
find_closest_line(todo, max_distance, closest) ==
  IF todo = <<>>
  THEN closest
  ELSE
    LET f == Head(todo)
    IN  IF f.distance > max_distance
        THEN find_closest_line(Tail(todo), max_distance, closest)
        ELSE IF f.distance < closest.distance
        THEN find_closest_line(Tail(todo), max_distance,
                               [found |-> TRUE, distance |-> f.distance,
                                moved |-> f.sampled, snap_type |-> "line"])
        ELSE find_closest_line(Tail(todo), max_distance, closest)

\* For a polygon feature: whether it contains the point, the distance to
\* its centroid, geometry.distance(point) (0 for a point inside) and the
\* distance to the nearest of the 501 points sampled along its exterior
\* ring.
PolygonFeatures ==
  {f \in [inside : BOOLEAN, centroid : Distances, distance : Distances,
          boundary : Distances] :
     /\ f.inside => f.distance = 0
     /\ f.distance <= f.boundary
     /\ f.boundary = 0 => ~f.inside}

\* one pass of the loop body of _find_closest_polygon: centroid first
closest_by_centroid(f, max_distance, set, closest) ==
  IF /\ set.snap_to_centroid
     /\ f.centroid <= max_distance
     /\ f.centroid < closest.distance
  THEN [found |-> TRUE, distance |-> f.centroid, moved |-> f.centroid,
        snap_type |-> "centroid"]
  ELSE closest

\* ... then the boundary, for which geometry.distance is what is compared
\* with max_distance
closest_by_boundary(f, max_distance, set, closest) ==
  IF /\ set.snap_to_boundary
     /\ ~set.snap_to_centroid \/ ~set.prefer_centroid
     /\ f.distance <= max_distance
     /\ ~set.snap_to_centroid \/ closest.snap_type # "centroid"
     /\ f.boundary < closest.distance
  THEN [found |-> TRUE, distance |-> f.boundary, moved |-> f.boundary,
        snap_type |-> "boundary"]
  ELSE closest

RECURSIVE find_closest_polygon(_, _, _, _)
find_closest_polygon(todo, max_distance, set, closest) ==
  IF todo = <<>>
  THEN closest
  ELSE find_closest_polygon(
         Tail(todo), max_distance, set,
         closest_by_boundary(Head(todo), max_distance, set,
           closest_by_centroid(Head(todo), max_distance, set, closest)))

\* the features of the layers searched, in the order of the loop
UpTo(S, n) == UNION {[1..k -> S] : k \in 0..n}

SnapSettings ==
  [snap_to_centroid : BOOLEAN, snap_to_boundary : BOOLEAN,
   prefer_centroid : BOOLEAN]

SnapPointToLine ==
  /\ call = NoCall
  /\ \E features \in UpTo(LineFeatures, MaxCandidates),
        max_distance \in Distances :
       call' = [op |-> "snap_point_to_line",
                in |-> [features |-> features, max_distance |-> max_distance],
                out |-> find_closest_line(features, max_distance, NoSnap)]
  /\ UNCHANGED <<handler_vars, load_vars>>

SnapPointToPolygon ==
  /\ call = NoCall
  /\ \E features \in UpTo(PolygonFeatures, MaxCandidates),
        max_distance \in Distances, set \in SnapSettings :
       call' = [op |-> "snap_point_to_polygon",
                in |-> [features |-> features, max_distance |-> max_distance,
                        set |-> set],
                out |-> find_closest_polygon(features, max_distance, set,
                                             NoSnap)]
  /\ UNCHANGED <<handler_vars, load_vars>>

(* The two snapping searches on every answer of the geometry library.      *)
SnapNext ==
  \/ SnapPointToLine
  \/ SnapPointToPolygon

SnapSpec == LoadInit /\ [][SnapNext]_vars

(* --------------------- zoom actions: buffer constraints ---------------- *)
\* get_settings_schema of zoom_to_polygon: 'max' of buffer_percentage and
\* of minimum_buffer_percentage, 'min' and 'max' of
\* maximum_buffer_percentage; the other 'min' are 0
buffer_percentage_max == 100
minimum_buffer_percentage_max == 50
maximum_buffer_percentage_min == 5
maximum_buffer_percentage_max == 200

\* the values of a setting between its 'min' and 'max', on a grid
Allowed(min, max) == {v \in min..max : v % PercentStep = 0}

Max(a, b) == IF a >= b THEN a ELSE b
Min(a, b) == IF a <= b THEN a ELSE b

\* "# Apply buffer percentage constraints"
actual_buffer(minimum_buffer, maximum_buffer, buffer_percentage) ==
  Max(minimum_buffer, Min(maximum_buffer, buffer_percentage))

\* every combination of the three settings the schema allows
BufferSettings ==
  [buffer_percentage : Allowed(0, buffer_percentage_max),
   minimum_buffer : Allowed(0, minimum_buffer_percentage_max),
   maximum_buffer : Allowed(maximum_buffer_percentage_min,
                            maximum_buffer_percentage_max)]

\* zoom_to_polygon / zoom_to_line_layer execute, up to the buffer applied
ApplyBufferConstraints ==
  /\ call = NoCall
  /\ \E set \in BufferSettings :
       call' = [op |-> "actual_buffer", in |-> set,
                out |-> actual_buffer(set.minimum_buffer, set.maximum_buffer,
                                      set.buffer_percentage)]
  /\ UNCHANGED <<handler_vars, load_vars>>

(* ----------------------- zoom_to_visible_data_layers ------------------ *)
\* A layer of the project: valid or not, checked in the layer tree or not,
\* raster or vector, what in it marks a basemap (a keyword in its name, a
\* tile server in its source, or nothing), and its extent.
ProjectLayers ==
  [valid : BOOLEAN, visible : BOOLEAN, raster : BOOLEAN,
   marked : {"name", "source", "no"}, extent : {"empty", "local", "global"}]

\* _is_basemap_layer: a raster layer with a basemap keyword in its name, a
\* basemap URL in its source, or an extent wider than the globe
is_basemap_layer(map_layer) ==
  IF ~map_layer.raster THEN FALSE
  ELSE IF map_layer.marked = "name" THEN TRUE
  ELSE IF map_layer.marked = "source" THEN TRUE
  ELSE map_layer.extent = "global"

\* "# Filter layers based on visibility setting": the indices kept
visible_layers(layers, include_invisible_layers) ==
  IF ~include_invisible_layers
  THEN {i \in DOMAIN layers :
          /\ layers[i].valid
          /\ layers[i].visible
          /\ ~is_basemap_layer(layers[i])}
  ELSE DOMAIN layers

\* "# Calculate combined extent": the layers whose extent goes into it
\* (a failed CRS transformation skips the layer)
combined_extent(layers, kept, untransformable) ==
  {i \in kept :
     /\ layers[i].valid
     /\ layers[i].extent # "empty"
     /\ i \notin untransformable}

\* execute: the layers the canvas is zoomed to, none when it returns early
zoom_to_visible_data_layers_execute(in) ==
  IF ~in.canvas \/ in.layers = <<>>
  THEN [zoomed |-> FALSE, combined |-> {}]
  ELSE
    LET kept == visible_layers(in.layers, in.include_invisible_layers)
        combined == combined_extent(in.layers, kept, in.untransformable)
    IN  [zoomed |-> combined # {}, combined |-> combined]

ZoomToVisibleDataLayers ==
  /\ call = NoCall
  /\ \E layers \in UpTo(ProjectLayers, MaxCandidates),
        include \in BOOLEAN, canvas \in BOOLEAN,
        untransformable \in SUBSET {1} :
       /\ ~canvas => (layers = <<>> /\ ~include)
       /\ untransformable \subseteq DOMAIN layers
       /\ LET in == [layers |-> layers, include_invisible_layers |-> include,
                     canvas |-> canvas, untransformable |-> untransformable]
          IN  call' = [op |-> "zoom_to_visible_data_layers", in |-> in,
                       out |-> zoom_to_visible_data_layers_execute(in)]
  /\ UNCHANGED <<handler_vars, load_vars>>

(* The zoom actions on every combination of their settings.                *)
ViewNext ==
  \/ ApplyBufferConstraints
  \/ ZoomToVisibleDataLayers

ViewSpec == LoadInit /\ [][ViewNext]_vars

(* ------------------------ what the last handler did -------------------- *)
Has(e) == \E i \in DOMAIN last.trace : last.trace[i] = e

\* a call of layer.updateFeature / layer.addFeature, accepted or not
MutationCalls == {"update_ok", "update_rejected", "add_ok", "add_rejected"}

\* a call of the wrapper: enter, commit, rollback, exit
SessionCalls ==
  {"enter_ok", "enter_failed", "commit_ok", "commit_failed", "rollback", "exit"}

Called(calls) == \E i \in DOMAIN last.trace : last.trace[i] \in calls

Rejected == Has("update_rejected") \/ Has("add_rejected")

\* the handlers that are an action's execute
Executes ==
  {"rotate_line", "scale_line_layer", "zoom_to_polygon", "zoom_to_line_layer",
   "move_point_with_click", "take_canvas_screenshot"}

\* the executes of feature-scope and layer-scope actions
ScopedExecutes == Executes \ {"take_canvas_screenshot"}

\* the executes that read the canvas of the Click Context
ViewExecutes ==
  {"zoom_to_polygon", "zoom_to_line_layer", "move_point_with_click",
   "take_canvas_screenshot"}

\* the actions with a show_error_messages setting
ZoomActions == {"zoom_to_polygon", "zoom_to_line_layer"}

(* ------------------------------- properties ---------------------------- *)

\* C1: a layer that was editable before a handler ran is still editable
\* after it, whatever the handler did (commit, rollback, early return).
C1_StillEditable ==
  (last.handler # "none" /\ last.before.editable) => layer.editable

\* C1 case: rotate_line in a session of the user, updated and committed
C1_Witness ==
  /\ last.handler = "rotate_line"
  /\ last.before.editable
  /\ Has("update_ok") /\ Has("commit_ok") /\ Has("exit")
  /\ layer.editable

\* C2: every successful enter of a handler's trace is followed, later in
\* the same trace, by the exit step.
C2_ExitReached ==
  \A i \in DOMAIN last.trace :
    last.trace[i] = "enter_ok" =>
      \E j \in DOMAIN last.trace : j > i /\ last.trace[j] = "exit"

\* C2 case: the early return after a failed commit still passes the exit
C2_Witness ==
  /\ last.handler = "scale_line_layer"
  /\ Has("enter_ok") /\ Has("commit_failed") /\ Has("exit")
  /\ ~Has("info:success")

\* C3: in a session entered through the wrapper, a rejected updateFeature /
\* addFeature is followed by a rollback through the wrapper and an error
\* message, and the layer is left as it was before the handler ran.
C3_RejectedUpdateRolledBack ==
  (Has("enter_ok") /\ Rejected)
  => /\ Has("rollback")
     /\ Has("error:update")
     /\ layer = last.before

\* C3 case: rotate_line, update rejected: reported, left without a rollback
C3_Witness ==
  /\ last.handler = "rotate_line"
  /\ Has("enter_ok") /\ Has("update_rejected") /\ Has("error:update")
  /\ ~Has("rollback") /\ Has("exit")

\* C4: layer not editable, edit mode entered, mutation accepted, commit
\* failed: the strategy rolls back, the wrapper exits, and the layer ends
\* not editable with nothing persisted and nothing pending.
C4_FailedCommitRolledBack ==
  (~last.before.editable /\ Has("enter_ok") /\ Called({"update_ok", "add_ok"})
     /\ Has("commit_failed"))
  => /\ Has("rollback")
     /\ Has("exit")
     /\ ~layer.editable
     /\ layer.provider = last.before.provider
     /\ layer.buffer = {}

\* C4 case: the commit failed, nobody rolled back, and the session the
\* wrapper opened is ended over the pending edit
C4_Witness ==
  /\ last.handler = "rotate_line"
  /\ ~last.before.editable
  /\ Has("update_ok") /\ Has("commit_failed") /\ ~Has("rollback")
  /\ ~layer.editable
  /\ layer.buffer # {}

\* C5: after enter, a mutation that failed before any commit, rollback and
\* exit, the features of the layer are those it showed immediately before
\* enter, pending edits of a session of the user included.
C5_RollbackRestores ==
  (Has("enter_ok") /\ ~Has("commit_ok") /\ Has("rollback") /\ Has("exit"))
  => Visible(layer) = Visible(last.before)

\* C5 case: the rotation raised before any update; the rollback took the
\* pending edits of the user's session with it
C5_Witness ==
  /\ last.before.editable /\ last.before.buffer # {}
  /\ Has("enter_ok") /\ ~Called(MutationCalls) /\ Has("rollback")
  /\ layer.buffer = {}
  /\ Visible(layer) # Visible(last.before)

\* C6: every call of updateFeature / addFeature comes after a successful
\* enter through the wrapper in the same handler run.
C6_MutationOnlyAfterEnter ==
  \A i \in DOMAIN last.trace :
    last.trace[i] \in MutationCalls =>
      \E j \in DOMAIN last.trace : j < i /\ last.trace[j] = "enter_ok"

\* C6 case: handle_edit_mode_automatically off, the layer in a session of
\* the user: the feature is updated with no wrapper call at all
C6_Witness ==
  /\ ~last.set.handle_edit_mode
  /\ Has("update_ok")
  /\ ~Called(SessionCalls)

\* C7: when edit mode cannot be entered the failure is reported, no
\* updateFeature / addFeature is attempted and the layer is untouched.
C7_NoMutationWithoutEditMode ==
  Has("enter_failed") => /\ Has("error:edit_mode")
                         /\ ~Called(MutationCalls)
                         /\ layer = last.before

\* C7 case: rotate_line on a layer whose startEditing fails
C7_Witness ==
  /\ last.handler = "rotate_line"
  /\ ~last.before.editable
  /\ Has("enter_failed") /\ Has("error:edit_mode")

C9_CancelLeavesNoSession ==
  (Has("cancel") \/ last.handler = "cancel_move")
  => /\ layer.editable = last.before.editable
     /\ ~Called(SessionCalls)

\* C9 case: the move tool cancelled on a layer that is not being edited
C9_Witness ==
  /\ last.handler = "cancel_move"
  /\ Has("info:cancelled")
  /\ ~last.before.editable /\ ~layer.editable

C12_NoUnhandledException ==
  last.handler \in Executes => ~Has("unhandled_exception")

\* C12 case: zoom_to_line_layer with a stored value float() cannot convert
C12_Witness ==
  /\ last.handler = "zoom_to_line_layer"
  /\ ~last.set.valid
  /\ last.trace = <<"unhandled_exception">>

\* C13: an execute that reads the canvas and finds none (its settings
\* convert, a feature is under the click) reports the error to the user
\* and does nothing else.
C13_NoCanvasReported ==
  (last.handler \in ViewExecutes /\ last.set.valid /\ last.features # <<>>
     /\ ~last.canvas)
  => /\ last.trace = <<"error:no_canvas">>
     /\ layer = last.before

\* C13 case: take_canvas_screenshot without a canvas returns silently
C13_Witness ==
  /\ last.handler = "take_canvas_screenshot"
  /\ last.set.valid /\ last.features # <<>> /\ ~last.canvas
  /\ last.trace = <<>>

(* ----------------------- registry and menu properties ------------------ *)
Registered(d) == \E i \in DOMAIN registry : registry[i] = d

InMenu(action_id) == \E i \in DOMAIN menu.items : menu.items[i] = action_id

\* C14: every declared descriptor of universal scope has both type sets
\* exactly {universal}.
C14_UniversalMeansUniversalTypes ==
  (report.error # "idle" /\ report.d.scope = "universal")
  => /\ report.d.click_types = {"universal"}
     /\ report.d.geometry_types = {"universal"}

\* C14 case: open_coordinates_in_map, universal scope, lists six concrete
\* categories and "canvas" as its geometry types
C14_Witness ==
  /\ report.error # "idle"
  /\ report.d.action_id = "open_coordinates_in_map"
  /\ report.d.scope = "universal"
  /\ report.d.geometry_types # {"universal"}

C16_DuplicateRejected ==
  (report.error # "idle" /\ report.d.action_id \in RegisteredIds(report.before))
  => /\ report.error = "ConfigurationError:duplicate"
     /\ registry = report.before

\* C16 case: the second registration differs from the first (its enabled
\* flag), and the first is the one the registry holds
C16_Witness ==
  /\ report.error = "ConfigurationError:duplicate"
  /\ \E i \in DOMAIN registry :
       /\ registry[i].action_id = report.d.action_id
       /\ registry[i].enabled # report.d.enabled

EnteredByWrapper == Has("enter_ok") /\ ~last.before.editable

\* C18: after a handler has called exit, calling exit again with the same
\* Edit Session Record changes neither the editable state nor the pending
\* edits of the layer.
C18_ExitIdempotent ==
  Has("exit")
  => exit_edit_mode(Start(layer), EnteredByWrapper).layer = layer

\* C18 case: the first exit ended a session the wrapper had started, with
\* an edit still pending after a failed commit
C18_Witness ==
  /\ Has("exit") /\ EnteredByWrapper
  /\ Has("commit_failed")
  /\ ~layer.editable
  /\ HasPending(layer)

\* C20: in a session the user started, the edits the user had pending on
\* other features than the one the action works on are still pending
\* after the action: neither committed nor discarded.
C20_UserSessionUntouched ==
  (last.handler \in {"rotate_line", "canvasPressEvent"} /\ last.before.editable)
  => \A p \in last.before.buffer :
       p[1] # Head(last.features) => p \in layer.buffer

\* C20 case: rotate_line on feature 2 commits; the user's pending edit of
\* feature 1 is persisted with it
C20_Witness ==
  /\ last.handler = "rotate_line"
  /\ last.before.editable
  /\ last.before.buffer = {<<1, 1>>}
  /\ last.features = <<2>>
  /\ Has("commit_ok")
  /\ layer.buffer = {}
  /\ <<1, 1>> \in layer.provider

(* --------------------------- locator properties ------------------------ *)
\* C19: locate returns exactly the candidates under the click, sorted by
\* non-decreasing distance, a polygon containing the click at distance 0;
\* so the first detected feature, the one a strategy takes, is a closest
\* candidate.
C19_SortedByDistance ==
  detected.located =>
    LET fs == detected.features
        scene == detected.scene
    IN  /\ \A i, j \in DOMAIN fs : i < j => fs[i].distance <= fs[j].distance
        /\ \A i \in DOMAIN fs :
             (fs[i].geometry_type = "polygon" /\ scene[fs[i].layer].contains)
             => fs[i].distance = 0
        /\ \A l \in Layers :
             IsCandidate(scene[l], detected.tolerance)
             <=> \E i \in DOMAIN fs : fs[i].layer = l
        /\ fs # <<>> =>
             \A l \in Layers :
               IsCandidate(scene[l], detected.tolerance)
               => Head(fs).distance <= DistanceTo(scene[l])

\* C19 case: a polygon on a lower layer contains the click and comes
\* first, before a nearer-drawn feature at a positive distance
C19_Witness ==
  /\ detected.located
  /\ Len(detected.features) >= 2
  /\ detected.features[1].geometry_type = "polygon"
  /\ detected.features[1].distance = 0
  /\ detected.scene[detected.features[1].layer].dist > 0
  /\ detected.features[2].distance > 0
  /\ detected.features[2].layer < detected.features[1].layer

(* ------------------------ more menu properties ------------------------- *)
\* the menu the Dispatcher would build for a click, as a set of action ids
Offered(click) ==
  LET items == build_menu(registry, click)
  IN  {items[i] : i \in DOMAIN items}

\* C21: an enabled action declared with universal scope, once the loader
\* has registered it, is offered for every click, the click on empty canvas
\* included.
C21_UniversalOfferedEverywhere ==
  (/\ report.error # "idle"
   /\ report.d.scope = "universal" /\ report.d.enabled
   /\ report.d.action_id \notin RegisteredIds(report.before))
  => \A click \in Clicks : report.d.action_id \in Offered(click)

\* C21 case: open_coordinates_in_map, enabled, has been handed to the
\* registry and is missing from the menu of a click on empty canvas
C21_Witness ==
  /\ report.error # "idle"
  /\ report.d.action_id = "open_coordinates_in_map"
  /\ report.d.enabled
  /\ report.d.action_id \notin RegisteredIds(report.before)
  /\ report.d.action_id \notin Offered("universal")

(* -------------------------- map tool properties ------------------------ *)
\* canvas.mapTool(): 0 is the tool the user had (or none); i is the i-th
\* pending tool of the action, whose original_tool is the tool i - 1
MapTool == Len(tools)

StoppedAtFeature ==
  /\ last.handler = "scale_line_layer"
  /\ Has("not_scaled") \/ Has("update_rejected")

\* C23: when scale_line_layer stops at a feature it cannot scale or update,
\* with skip-invalid disabled, no feature keeps a geometry of this run:
\* every feature shows the geometry it showed before the run, or its
\* stored one, for every value of rollback_on_error and
\* handle_edit_mode_automatically.
C23_NotHalfModified ==
  StoppedAtFeature =>
    \A f \in FeatureIds(last.before) :
      /\ f \in FeatureIds(layer)
      /\ GeomOf(Visible(layer), f)
           \in {GeomOf(Visible(last.before), f),
                GeomOf(last.before.provider, f)}

\* C23 case: on a layer the user had in edit mode with nothing pending, the
\* run scaled a feature, stopped at a later one, and the scaled geometry is
\* still pending while the later features are untouched
C23_Witness ==
  /\ StoppedAtFeature
  /\ last.before.editable /\ ~HasPending(last.before)
  /\ Has("update_ok")
  /\ layer.editable
  /\ layer.buffer # {}
  /\ \E f \in FeatureIds(layer) : f \notin Ids(layer.buffer)

(* ----------------------------- copy properties ------------------------- *)
\* the click-to-move run reported success for an operation the user chose
\* to make as a copy
CopyRunSucceeded ==
  /\ last.handler = "canvasPressEvent"
  /\ last.create_copy
  /\ Has("info:success")

SplitKept ==
  UNION {call.out.created_layers[i].features :
           i \in DOMAIN call.out.created_layers}

\* C25: split_point_layer_by_attribute removes the original layer only if
\* an output layer was created for every distinct attribute value, so that
\* every feature of the original is in some created layer.
C25_OriginalRemovedOnlyIfAllCreated ==
  (call.op = "split_point_layer_by_attribute" /\ call.out.original_removed)
  => /\ {call.out.created_layers[i].value :
           i \in DOMAIN call.out.created_layers}
          = unique_values(call.in.attrs)
     /\ SplitKept = DOMAIN call.in.attrs

\* C25 case: creating the layer of one value failed, the layer of another
\* value was created, and the original was removed with features that are
\* in no created layer
C25_Witness ==
  /\ call.op = "split_point_layer_by_attribute"
  /\ call.in.delete_original
  /\ call.out.original_removed
  /\ call.out.created_layers # <<>>
  /\ SplitKept # DOMAIN call.in.attrs

\* the features of the layers that were merged
MergeSources ==
  UNION {FeaturesOf(l) : l \in {1} \cup call.in.selected}

\* C26: merge_polygon_layer removes the source layers only when a merged
\* layer holding every feature of every source layer has been retained,
\* saved to disk or added to the project.
C26_SourcesRemovedOnlyIfMergedRetained ==
  (call.op = "merge_polygon_layer" /\ call.out.sources_removed)
  => /\ call.out.merged = MergeSources
     /\ call.out.on_disk \/ call.out.in_project

\* C26 case: the merged memory layer holds every feature, it is neither
\* saved nor added to the project, and the sources were removed
C26_Witness ==
  /\ call.op = "merge_polygon_layer"
  /\ call.out.sources_removed
  /\ call.out.merged = MergeSources
  /\ ~call.out.on_disk /\ ~call.out.in_project

(* -------------------------- file deletion properties ------------------- *)
\* the files of the layer that are still on disk after the call
Remaining == Associated(call.in.main, call.out.exists)

\* C27: _delete_layer_files returns success exactly when none of the
\* layer's files exists afterwards, and every file of the layer that is
\* still there is in the returned failed-files list.
C27_SuccessIffAllDeleted ==
  call.op = "_delete_layer_files"
  => /\ call.out.success <=> Remaining = {}
     /\ Remaining \subseteq call.out.failed_files

\* C27 case: a layer stored in a file of another format is handled as a
\* shapefile, nothing raises, and its file is still on disk and in no list
C27_Witness ==
  /\ call.op = "_delete_layer_files"
  /\ call.in.main = "gml"
  /\ call.in.file_format = "ESRI Shapefile"
  /\ \A f \in FileExtensions : call.in.raises[f] = 0
  /\ "gml" \in call.out.exists
  /\ call.out.failed_files = {}

(* ---------------------------- snapping properties ---------------------- *)
Snapped ==
  /\ call.op \in {"snap_point_to_line", "snap_point_to_polygon"}
  /\ call.out.found

\* C28: a snapped point is never moved farther than maximum_snap_distance,
\* for line snapping and for polygon centroid and boundary snapping alike.
C28_SnapWithinMaxDistance ==
  Snapped => call.out.moved <= call.in.max_distance

\* C28 case: boundary snapping of a point that lies inside a polygon, its
\* nearest boundary point farther away than maximum_snap_distance
C28_Witness ==
  /\ Snapped
  /\ call.op = "snap_point_to_polygon"
  /\ call.out.snap_type = "boundary"
  /\ \E i \in DOMAIN call.in.features :
       /\ call.in.features[i].inside
       /\ call.in.features[i].boundary = call.out.moved
  /\ call.out.moved > call.in.max_distance

(* ------------------------------ zoom properties ------------------------ *)
\* C29: the buffer percentage applied is never below the configured
\* minimum and never above the configured maximum, for every combination
\* of the three settings the schema allows.
C29_BufferWithinLimits ==
  call.op = "actual_buffer"
  => /\ call.out >= call.in.minimum_buffer
     /\ call.out <= call.in.maximum_buffer

\* C29 case: the schema's ranges let the minimum be set above the maximum;
\* the minimum is what is applied, above the configured maximum
C29_Witness ==
  /\ call.op = "actual_buffer"
  /\ call.in.minimum_buffer > call.in.maximum_buffer
  /\ call.out = call.in.minimum_buffer
  /\ call.out > call.in.maximum_buffer

\* C30: no basemap layer is part of the extent zoom_to_visible_data_layers
\* zooms to, whatever include_invisible_layers is.
C30_BasemapsExcluded ==
  call.op = "zoom_to_visible_data_layers"
  => \A i \in call.out.combined : ~is_basemap_layer(call.in.layers[i])

\* C30 case: include_invisible_layers is on and the canvas is zoomed to an
\* extent that takes in a visible basemap layer
C30_Witness ==
  /\ call.op = "zoom_to_visible_data_layers"
  /\ call.in.include_invisible_layers
  /\ call.out.zoomed
  /\ \E i \in call.out.combined :
       /\ is_basemap_layer(call.in.layers[i])
       /\ call.in.layers[i].visible

====
